---- MODULE Spec2Model ----
(***************************************************************************)
(* Intercompany reconciliation and consolidation (consolidate.py).         *)
(*                                                                         *)
(* A DataFrame is a sequence of rows; a row is a function from column      *)
(* names to values.  Strings that the program compares or joins (entity    *)
(* identifiers, pair keys, lines of the group file) are sequences of       *)
(* one-character strings ordered by code point.  Amount is a fixed-point   *)
(* integer counted in thousandths, so 1e-2 is 10.                          *)
(***************************************************************************)
EXTENDS Integers, Sequences, FiniteSets, TLC

VARIABLES
    csv_file,         \* data/transactions.csv on disk
    cfg_file,         \* config/group_companies.txt on disk
    pc,               \* position of the run
    df,               \* the DataFrame held by main()
    group_companies,  \* the membership set held by main()
    mismatches,       \* outcome of check_internal_mismatches
    summary,          \* (revenue, expense, profit), <<>> until computed
    stdout,           \* what the run printed, in order
    output_file       \* writes of data/tagged_transactions.csv, in order

vars == <<csv_file, cfg_file, pc, df, group_companies, mismatches, summary,
          stdout, output_file>>

----------------------------------------------------------------------------
(* Strings *)

Ord ==
    [c \in {"\n", " ", "A", "B", "C", "X", "|"} |->
        CASE c = "\n" -> 10
          [] c = " "  -> 32
          [] c = "A"  -> 65
          [] c = "B"  -> 66
          [] c = "C"  -> 67
          [] c = "X"  -> 88
          [] c = "|"  -> 124]

RECURSIVE StrLess(_, _)
StrLess(s, t) ==
    IF s = <<>> THEN t # <<>>
    ELSE IF t = <<>> THEN FALSE
    ELSE IF Head(s) # Head(t) THEN Ord[Head(s)] < Ord[Head(t)]
    ELSE StrLess(Tail(s), Tail(t))

IsSpace(c) == c \in {"\n", " "}

RECURSIVE lstrip(_)
lstrip(s) ==
    IF s # <<>> /\ IsSpace(Head(s)) THEN lstrip(Tail(s)) ELSE s

RECURSIVE rstrip(_)
rstrip(s) ==
    IF s # <<>> /\ IsSpace(s[Len(s)]) THEN rstrip(SubSeq(s, 1, Len(s) - 1)) ELSE s

strip(s) == rstrip(lstrip(s))

sorted(a, b) == IF StrLess(b, a) THEN <<b, a>> ELSE <<a, b>>

join(sep, parts) == parts[1] \o sep \o parts[2]

----------------------------------------------------------------------------
(* Values *)

Tolerance == 10

required_columns == {"Company", "Counterparty", "AccountType", "Amount"}

NoFile == [exists |-> FALSE, columns |-> {}, rows |-> <<>>, lines |-> <<>>]

Unset == [raised |-> "unset", value |-> <<>>]

Return(v) == [raised |-> "none", value |-> v]

Raise(e) == [raised |-> e, value |-> <<>>]

abs(x) == IF x < 0 THEN -x ELSE x

RECURSIVE sum(_)
sum(rows) ==
    IF rows = <<>> THEN 0 ELSE Head(rows)["Amount"] + sum(Tail(rows))

----------------------------------------------------------------------------
(* load_data *)

load_data(csv, cfg) ==
    IF ~csv.exists \/ ~cfg.exists THEN Raise("FileNotFoundError")
    ELSE Return([df |-> csv.rows,
                 group_companies |->
                    {strip(cfg.lines[i]) :
                        i \in {j \in 1..Len(cfg.lines) : strip(cfg.lines[j]) # <<>>}}])

----------------------------------------------------------------------------
(* tag_internal_transactions *)

IsInternalRow_either(row, group) ==
    row["Company"] \in group \/ row["Counterparty"] \in group

IsInternalRow(row, group) ==
    row["Company"] \in group /\ row["Counterparty"] \in group

tag_internal_transactions(d, group) ==
    [i \in 1..Len(d) |->
        [c \in DOMAIN d[i] \cup {"Is_Internal"} |->
            IF c = "Is_Internal" THEN IsInternalRow(d[i], group) ELSE d[i][c]]]

----------------------------------------------------------------------------
(* check_internal_mismatches *)

EntityPair_unsorted(row) ==
    join(<<"|">>, <<row["Company"], row["Counterparty"]>>)

EntityPair(row) == join(<<"|">>, sorted(row["Company"], row["Counterparty"]))

RECURSIVE SortedKeys(_)
SortedKeys(S) ==
    IF S = {} THEN <<>>
    ELSE LET m == CHOOSE k \in S : \A o \in S \ {k} : StrLess(k, o)
         IN  <<m>> \o SortedKeys(S \ {m})

GroupSum(rows, key, type) ==
    sum(SelectSeq(rows, LAMBDA r : EntityPair(r) = key /\ r["AccountType"] = type))

get(row, col, default) == IF col \in DOMAIN row THEN row[col] ELSE default

Net_Internal(row) == get(row, "Revenue", 0) + get(row, "Expense", 0)

IsMismatch_signed(net) == net > Tolerance

IsMismatch(net) == abs(net) > Tolerance

check_internal_mismatches(d) ==
    LET internal_df == SelectSeq(d, LAMBDA r : r["Is_Internal"])
    IN  IF internal_df = <<>> THEN Raise("ValueError")
        ELSE
        LET keys  == {EntityPair(internal_df[i]) : i \in DOMAIN internal_df}
            types == {internal_df[i]["AccountType"] : i \in DOMAIN internal_df}
            pivot == [k \in keys |-> [t \in types |-> GroupSum(internal_df, k, t)]]
            net   == [k \in keys |-> Net_Internal(pivot[k])]
            hits  == SelectSeq(SortedKeys(keys), LAMBDA k : IsMismatch(net[k]))
        IN  IF ~({"Revenue", "Expense"} \subseteq types) THEN Raise("KeyError")
            ELSE Return([i \in 1..Len(hits) |->
                            [EntityPair   |-> hits[i],
                             Revenue      |-> pivot[hits[i]]["Revenue"],
                             Expense      |-> pivot[hits[i]]["Expense"],
                             Net_Internal |-> net[hits[i]]]])

----------------------------------------------------------------------------
(* compute_consolidated *)

compute_consolidated_all(d) ==
    LET revenue == sum(SelectSeq(d, LAMBDA r : r["AccountType"] = "Revenue"))
        expense == sum(SelectSeq(d, LAMBDA r : r["AccountType"] = "Expense"))
        profit  == revenue + expense
    IN  <<revenue, expense, profit>>

compute_consolidated(d) ==
    LET external_df == SelectSeq(d, LAMBDA r : ~r["Is_Internal"])
        revenue == sum(SelectSeq(external_df, LAMBDA r : r["AccountType"] = "Revenue"))
        expense == sum(SelectSeq(external_df, LAMBDA r : r["AccountType"] = "Expense"))
        profit  == revenue + expense
    IN  <<revenue, expense, profit>>

----------------------------------------------------------------------------
(* main *)

LoadData ==
    /\ pc = "Start"
    /\ LET r == load_data(csv_file, cfg_file)
       IN  IF r.raised = "FileNotFoundError"
           THEN /\ stdout' = Append(stdout, [msg |-> "File not found", detail |-> {}])
                /\ pc' = "PreconditionFailed"
                /\ UNCHANGED <<df, group_companies>>
           ELSE /\ df' = r.value.df
                /\ group_companies' = r.value.group_companies
                /\ pc' = "Loaded"
                /\ UNCHANGED stdout
    /\ UNCHANGED <<csv_file, cfg_file, mismatches, summary, output_file>>

MissingColumns ==
    /\ pc = "Loaded"
    /\ ~(required_columns \subseteq csv_file.columns)
    /\ stdout' = Append(stdout, [msg |-> "Missing required columns in CSV",
                                 detail |-> required_columns \ csv_file.columns])
    /\ pc' = "PreconditionFailed"
    /\ UNCHANGED <<csv_file, cfg_file, df, group_companies, mismatches, summary,
                   output_file>>

TagTransactions ==
    /\ pc = "Loaded"
    /\ required_columns \subseteq csv_file.columns
    /\ df' = tag_internal_transactions(df, group_companies)
    /\ pc' = "Tagged"
    /\ UNCHANGED <<csv_file, cfg_file, group_companies, mismatches, summary,
                   stdout, output_file>>

CheckMismatches ==
    /\ pc = "Tagged"
    /\ LET r == check_internal_mismatches(df)
       IN  IF r.raised = "none"
           THEN mismatches' = r /\ pc' = "Checked"
           ELSE mismatches' = mismatches /\ pc' = "Raised"
    /\ UNCHANGED <<csv_file, cfg_file, df, group_companies, summary, stdout,
                   output_file>>

Abort_saving ==
    /\ pc = "Checked"
    /\ mismatches.value # <<>>
    /\ stdout' = Append(stdout, [msg |-> "Mismatches Detected - Consolidation aborted",
                                 detail |-> mismatches.value])
    /\ output_file' = Append(output_file, df)
    /\ pc' = "Aborted"
    /\ UNCHANGED <<csv_file, cfg_file, df, group_companies, mismatches, summary>>

Abort ==
    /\ pc = "Checked"
    /\ mismatches.value # <<>>
    /\ stdout' = Append(stdout, [msg |-> "Mismatches Detected - Consolidation aborted",
                                 detail |-> mismatches.value])
    /\ pc' = "Aborted"
    /\ UNCHANGED <<csv_file, cfg_file, df, group_companies, mismatches, summary,
                   output_file>>

Consolidate_ungated ==
    /\ pc = "Checked"
    /\ summary' = compute_consolidated(df)
    /\ stdout' = stdout \o
                 <<[msg |-> "All internal transactions are matched correctly",
                    detail |-> {}],
                   [msg |-> "Consolidated Financial Summary", detail |-> summary']>>
    /\ pc' = "Consolidated"
    /\ UNCHANGED <<csv_file, cfg_file, df, group_companies, mismatches, output_file>>

Consolidate ==
    /\ pc = "Checked"
    /\ mismatches.value = <<>>
    /\ summary' = compute_consolidated(df)
    /\ stdout' = stdout \o
                 <<[msg |-> "All internal transactions are matched correctly",
                    detail |-> {}],
                   [msg |-> "Consolidated Financial Summary", detail |-> summary']>>
    /\ pc' = "Consolidated"
    /\ UNCHANGED <<csv_file, cfg_file, df, group_companies, mismatches, output_file>>

SaveTagged ==
    /\ pc = "Consolidated"
    /\ output_file' = Append(output_file, df)
    /\ stdout' = Append(stdout, [msg |-> "Tagged transactions saved", detail |-> {}])
    /\ pc' = "Done"
    /\ UNCHANGED <<csv_file, cfg_file, df, group_companies, mismatches, summary>>

----------------------------------------------------------------------------
(* Inputs of a run of main() *)

MaxLedger == 3

A == <<"A">>

C == <<"C">>

X == <<"X">>

A_B == <<"A", "|", "B">>

B_C == <<"B", "|", "C">>

SeqsUpTo(S, n) == UNION {[1..k -> S] : k \in 0..n}

Project(row, cols) == [c \in cols |-> row[c]]

RowsOf(parties, entries) ==
    {[Company |-> p[1], Counterparty |-> p[2], AccountType |-> e[1], Amount |-> e[2]] :
        p \in parties, e \in entries}

MainRows ==
    RowsOf({A, C} \X {A, C, X}, {<<"Revenue", 100>>, <<"Expense", -100>>})

ColumnSets ==
    {required_columns, required_columns \ {"Amount"},
     required_columns \ {"Company", "Counterparty"}}

CsvFiles ==
    {NoFile} \cup
    {[exists |-> TRUE, columns |-> cols, lines |-> <<>>,
      rows |-> [i \in 1..Len(l) |-> Project(l[i], cols)]] :
        cols \in ColumnSets, l \in SeqsUpTo(MainRows, MaxLedger)}

CfgFiles ==
    {NoFile} \cup
    {[exists |-> TRUE, columns |-> {}, rows |-> <<>>, lines |-> ls] :
        ls \in {<<>>, <<<<"A", "\n">>, <<"\n">>, <<" ", "C", " ", "\n">>>>}}

Init ==
    /\ csv_file \in CsvFiles
    /\ cfg_file \in CfgFiles
    /\ pc = "Start"
    /\ df = <<>>
    /\ group_companies = {}
    /\ mismatches = Unset
    /\ summary = <<>>
    /\ stdout = <<>>
    /\ output_file = <<>>

Next ==
    \/ LoadData
    \/ MissingColumns
    \/ TagTransactions
    \/ CheckMismatches
    \/ Abort
    \/ Consolidate
    \/ SaveTagged

Spec == Init /\ [][Next]_vars

----------------------------------------------------------------------------
(* The three components applied to every tagged ledger within the bounds *)

MaxRows == 3

FnRows ==
    RowsOf({<<A, C>>, <<C, A>>},
           {<<"Revenue", 100>>, <<"Expense", -100>>, <<"Expense", -90>>,
            <<"Expense", -89>>, <<"Asset", 50>>})
    \cup
    RowsOf({<<A, B_C>>, <<A_B, C>>}, {<<"Revenue", 100>>, <<"Expense", -100>>})

FnGroups == {{A, C, A_B, B_C}, {A, B_C}}

FnInit ==
    /\ csv_file = NoFile
    /\ cfg_file = NoFile
    /\ pc = "FnTagged"
    /\ group_companies \in FnGroups
    /\ df \in {tag_internal_transactions(l, group_companies) :
                l \in SeqsUpTo(FnRows, MaxRows)}
    /\ mismatches = Unset
    /\ summary = <<>>
    /\ stdout = <<>>
    /\ output_file = <<>>

FnCheck ==
    /\ pc = "FnTagged"
    /\ mismatches' = check_internal_mismatches(df)
    /\ pc' = "FnChecked"
    /\ UNCHANGED <<csv_file, cfg_file, df, group_companies, summary, stdout,
                   output_file>>

FnConsolidate ==
    /\ pc = "FnChecked"
    /\ summary' = compute_consolidated(df)
    /\ pc' = "FnDone"
    /\ UNCHANGED <<csv_file, cfg_file, df, group_companies, mismatches, stdout,
                   output_file>>

FnNext == FnCheck \/ FnConsolidate

FnSpec == FnInit /\ [][FnNext]_vars

(* The same, over ledgers in which no two entity pairs share a key *)

PairRows ==
    RowsOf({<<A, C>>, <<C, A>>},
           {<<"Revenue", 100>>, <<"Expense", -100>>, <<"Expense", -91>>,
            <<"Expense", -90>>, <<"Expense", -89>>, <<"Asset", 50>>})
    \cup
    RowsOf({<<A, B_C>>}, {<<"Revenue", 100>>, <<"Expense", -100>>})

PairInit ==
    /\ csv_file = NoFile
    /\ cfg_file = NoFile
    /\ pc = "FnTagged"
    /\ group_companies \in {{A, C, B_C}, {A, C}}
    /\ df \in {tag_internal_transactions(l, group_companies) :
                l \in SeqsUpTo(PairRows, MaxRows)}
    /\ mismatches = Unset
    /\ summary = <<>>
    /\ stdout = <<>>
    /\ output_file = <<>>

PairSpec == PairInit /\ [][FnNext]_vars

----------------------------------------------------------------------------
(* Properties of a run of main() *)

Printed(m) == \E i \in DOMAIN stdout : stdout[i].msg = m

SummaryReported == Printed("Consolidated Financial Summary")

MismatchesReported == Printed("Mismatches Detected - Consolidation aborted")

PreconditionReported ==
    Printed("File not found") \/ Printed("Missing required columns in CSV")

PreconditionsPass ==
    csv_file.exists /\ cfg_file.exists /\ required_columns \subseteq csv_file.columns

Terminal == pc \in {"PreconditionFailed", "Raised", "Aborted", "Done"}

ReturnedEmpty == mismatches.raised = "none" /\ mismatches.value = <<>>

ReturnedNonEmpty == mismatches.raised = "none" /\ mismatches.value # <<>>

PipelineMoves ==
    {<<"Start", "Loaded">>, <<"Loaded", "Tagged">>, <<"Tagged", "Checked">>,
     <<"Checked", "Consolidated">>, <<"Checked", "Aborted">>}

PipelineStates == {"Loaded", "Tagged", "Checked", "Consolidated", "Aborted"}

GateHolds ==
    /\ (summary # <<>> \/ SummaryReported) => ReturnedEmpty
    /\ ReturnedNonEmpty =>
          summary = <<>> /\ ~SummaryReported /\ pc \in {"Checked", "Aborted"}
    /\ (Terminal /\ PreconditionsPass) =>
          /\ SummaryReported <=> ReturnedEmpty
          /\ SummaryReported => summary = compute_consolidated(df)
          /\ ReturnedNonEmpty => pc = "Aborted"

GateMove ==
    pc' # pc =>
        /\ pc' \in PipelineStates => <<pc, pc'>> \in PipelineMoves
        /\ pc' = "Consolidated" => mismatches.raised = "none" /\ mismatches.value = <<>>
        /\ pc' = "Aborted" => mismatches.raised = "none" /\ mismatches.value # <<>>

\* C1: when the preconditions pass, the consolidated summary is computed and
\* reported exactly when check_internal_mismatches returned an empty result; a
\* non-empty result ends the run in Aborted with compute_consolidated never
\* invoked; the run only moves Loaded -> Tagged -> Checked -> Consolidated or
\* Aborted.
C1_MismatchGate == []GateHolds /\ [][GateMove]_vars

C1_Witness ==
    /\ pc = "Consolidated"
    /\ ReturnedEmpty
    /\ SummaryReported
    /\ summary[1] # 0
    /\ \E i \in DOMAIN df : df[i]["Is_Internal"]

\* C3: after tag_internal_transactions, Is_Internal of a transaction is true if
\* and only if its Company and its Counterparty are both in group_companies; it
\* is false whenever a party is not a member, also with an empty group or with
\* Company = Counterparty.
C3_TaggingCorrect ==
    pc \in {"Tagged", "Checked", "Raised", "Aborted", "Consolidated", "Done"} =>
        /\ Len(df) = Len(csv_file.rows)
        /\ \A i \in DOMAIN df :
              /\ df[i]["Is_Internal"] =>
                    {df[i]["Company"], df[i]["Counterparty"]} \subseteq group_companies
              /\ {df[i]["Company"], df[i]["Counterparty"]} \subseteq group_companies =>
                    df[i]["Is_Internal"]
              /\ (\E e \in {csv_file.rows[i]["Company"], csv_file.rows[i]["Counterparty"]} :
                      e \notin group_companies) => ~df[i]["Is_Internal"]

C3_Witness ==
    /\ pc = "Tagged"
    /\ \E i \in DOMAIN df :
          df[i]["Is_Internal"] /\ df[i]["Company"] = df[i]["Counterparty"]
    /\ \E i \in DOMAIN df :
          /\ ~df[i]["Is_Internal"]
          /\ df[i]["Company"] \in group_companies
          /\ df[i]["Counterparty"] \notin group_companies

OneOfThree ==
    Cardinality({r \in {"balanced", "mismatches", "precondition"} :
                    \/ r = "balanced" /\ SummaryReported
                    \/ r = "mismatches" /\ MismatchesReported /\ summary = <<>>
                    \/ r = "precondition" /\ PreconditionReported}) = 1

NothingPerformed ==
    /\ \A i \in DOMAIN df : "Is_Internal" \notin DOMAIN df[i]
    /\ mismatches = Unset
    /\ summary = <<>>
    /\ output_file = <<>>

\* C8: every run ends in exactly one of three reports (balanced with a summary,
\* mismatches detected without consolidation, precondition failure); with a
\* source file missing or a required column absent the run ends in the third,
\* the missing columns are named, and nothing was tagged, checked, consolidated
\* or written.
C8_RunOutcomes ==
    Terminal =>
        /\ OneOfThree
        /\ ~PreconditionsPass =>
              /\ PreconditionReported
              /\ NothingPerformed
              /\ (csv_file.exists /\ cfg_file.exists) =>
                    \E i \in DOMAIN stdout :
                        /\ stdout[i].msg = "Missing required columns in CSV"
                        /\ stdout[i].detail = required_columns \ csv_file.columns

\* C9: data/tagged_transactions.csv is written at most once per run, and only
\* after the mismatch check returned empty and the summary was produced; a run
\* that ends in precondition failure or in Aborted writes nothing.
C9_NoWriteBeforeGate ==
    /\ Len(output_file) <= 1
    /\ output_file # <<>> =>
          ReturnedEmpty /\ summary # <<>> /\ SummaryReported /\ pc = "Done"
    /\ pc \in {"PreconditionFailed", "Aborted", "Raised"} => output_file = <<>>

C9_Witness ==
    /\ pc = "Done"
    /\ Len(output_file) = 1
    /\ output_file[1] = df
    /\ \E i \in DOMAIN df : ~df[i]["Is_Internal"]

----------------------------------------------------------------------------
(* Properties of the components *)

Entities == {A, C, A_B, B_C}

InternalRows(d) == {i \in DOMAIN d : d[i]["Is_Internal"]}

Between(d, a, b) ==
    {i \in InternalRows(d) : {d[i]["Company"], d[i]["Counterparty"]} = {a, b}}

OfType(d, I, t) == {i \in I : d[i]["AccountType"] = t}

RECURSIVE Total(_, _)
Total(d, I) ==
    IF I = {} THEN 0
    ELSE LET i == CHOOSE j \in I : TRUE
         IN  d[i]["Amount"] + Total(d, I \ {i})

KeyOf(a, b) == IF StrLess(b, a) THEN b \o <<"|">> \o a ELSE a \o <<"|">> \o b

RecordsFor(k) ==
    {i \in DOMAIN mismatches.value : mismatches.value[i]["EntityPair"] = k}

\* C2: for every tagged ledger and every unordered pair of entities,
\* check_internal_mismatches returns a record for the pair if and only if
\* abs(net) > 0.01, net being the pair's internal Revenue sum plus its internal
\* Expense sum; there is exactly one record per such pair and it carries the
\* revenue sum, the expense sum and the net.
C2_MismatchDetection ==
    pc = "FnChecked" =>
        /\ mismatches.raised = "none"
        /\ \A a \in Entities, b \in Entities :
              LET I    == Between(df, a, b)
                  rev  == Total(df, OfType(df, I, "Revenue"))
                  exp  == Total(df, OfType(df, I, "Expense"))
                  recs == RecordsFor(KeyOf(a, b))
              IN  /\ abs(rev + exp) > Tolerance <=> recs # {}
                  /\ Cardinality(recs) <= 1
                  /\ \A i \in recs :
                        /\ mismatches.value[i]["Revenue"] = rev
                        /\ mismatches.value[i]["Expense"] = exp
                        /\ mismatches.value[i]["Net_Internal"] = rev + exp

\* C4 as stated: whenever no mismatch is reported for a pair of group members,
\* the sum of the Amount of all internal transactions between them, of any
\* AccountType, is within 0.01 of zero.
C4_AllAmountsBalanced ==
    (pc = "FnChecked" /\ mismatches.raised = "none") =>
        \A a \in group_companies, b \in group_companies :
            RecordsFor(KeyOf(a, b)) = {} =>
                abs(Total(df, Between(df, a, b))) <= Tolerance

\* C4: whenever check_internal_mismatches returns and holds no record under the
\* normalized key of a pair of group members, the sum of the Amount of the
\* internal Revenue and Expense transactions grouped under that key is within
\* 0.01 of zero.
C4_RevenueExpenseBalanced ==
    (pc = "FnChecked" /\ mismatches.raised = "none") =>
        \A a \in group_companies, b \in group_companies :
            RecordsFor(KeyOf(a, b)) = {} =>
                abs(Total(df, {i \in InternalRows(df) :
                                  /\ EntityPair(df[i]) = KeyOf(a, b)
                                  /\ df[i]["AccountType"] \in {"Revenue", "Expense"}}))
                    <= Tolerance

C4_Witness ==
    /\ pc = "FnChecked"
    /\ mismatches.raised = "none"
    /\ \E a \in group_companies, b \in group_companies :
          LET I == Between(df, a, b)
          IN  /\ RecordsFor(KeyOf(a, b)) = {}
              /\ OfType(df, I, "Asset") # {}
              /\ Total(df, OfType(df, I, "Revenue")) + Total(df, OfType(df, I, "Expense"))
                    = Tolerance

\* C5: check_internal_mismatches returns a collection of records, without
\* raising, for every tagged ledger with the four required columns, also when
\* the ledger has no internal transaction or its internal transactions are all
\* Revenue or all Expense.
C5_DetectorTotal == pc = "FnChecked" => mismatches.raised = "none"

SwapParties(d, i) ==
    [d EXCEPT ![i] = [d[i] EXCEPT !["Company"] = d[i]["Counterparty"],
                                  !["Counterparty"] = d[i]["Company"]]]

SwapRows(d, i, j) == [d EXCEPT ![i] = d[j], ![j] = d[i]]

\* C6: swapping Company and Counterparty on an internal transaction, or
\* exchanging two rows of the ledger, leaves the outcome of
\* check_internal_mismatches (its records and their revenue, expense and net)
\* unchanged; every subset of swaps and every row order is a composition of
\* these steps.
C6_PairSymmetry ==
    pc = "FnChecked" =>
        /\ \A i \in InternalRows(df) :
              check_internal_mismatches(SwapParties(df, i)) = mismatches
        /\ \A i \in DOMAIN df, j \in DOMAIN df :
              i < j => check_internal_mismatches(SwapRows(df, i, j)) = mismatches

C6_Witness ==
    /\ pc = "FnChecked"
    /\ mismatches.raised = "none"
    /\ mismatches.value # <<>>
    /\ \E i \in InternalRows(df), j \in InternalRows(df) :
          /\ df[i]["Company"] # df[i]["Counterparty"]
          /\ df[i]["Company"] = df[j]["Counterparty"]
          /\ df[i]["Counterparty"] = df[j]["Company"]

RemoveRow(d, i) == SubSeq(d, 1, i - 1) \o SubSeq(d, i + 1, Len(d))

ExternalOf(d, t) == {i \in DOMAIN d : ~d[i]["Is_Internal"] /\ d[i]["AccountType"] = t}

Uncounted(d) ==
    {i \in DOMAIN d :
        d[i]["Is_Internal"] \/ d[i]["AccountType"] \notin {"Revenue", "Expense"}}

\* C7: compute_consolidated returns the sum of Amount over external Revenue
\* transactions, the sum over external Expense transactions, and their sum;
\* removing an internal transaction or one of another AccountType, or changing
\* its amount, leaves the three totals unchanged.
C7_ExternalOnly ==
    pc = "FnDone" =>
        /\ summary[1] = Total(df, ExternalOf(df, "Revenue"))
        /\ summary[2] = Total(df, ExternalOf(df, "Expense"))
        /\ summary[3] = summary[1] + summary[2]
        /\ \A i \in Uncounted(df) :
              /\ compute_consolidated(RemoveRow(df, i)) = summary
              /\ \A amt \in {0, 1000, -1000} :
                    compute_consolidated([df EXCEPT ![i]["Amount"] = amt]) = summary

C7_Witness ==
    /\ pc = "FnDone"
    /\ summary[1] # 0
    /\ summary[2] # 0
    /\ summary[3] # 0
    /\ InternalRows(df) # {}

\* C10: two internal transactions receive the same normalized key only if they
\* involve the same unordered pair of entities, also when an identifier
\* contains the separator.
C10_KeyInjective ==
    (pc = "FnChecked" /\ mismatches.raised = "none") =>
        \A i \in InternalRows(df), j \in InternalRows(df) :
            EntityPair(df[i]) = EntityPair(df[j]) =>
                {df[i]["Company"], df[i]["Counterparty"]} =
                {df[j]["Company"], df[j]["Counterparty"]}

====
